---- MODULE Spec2Model ----
(***************************************************************************)
(* A model of the chip8-emu-rust display pipeline: the simulation thread   *)
(* (Emulator::main_run_loop), the presentation callbacks of the UI thread  *)
(* (App::custom_painting, prepare and paint), the display slot with its    *)
(* mutex, the capacity-1 hand-off channel, the frame-ready flag and the    *)
(* GPU texture resource (WgpuDisplayTexture).                              *)
(***************************************************************************)
EXTENDS Integers, Sequences, FiniteSets, TLC

\* ---------------------------------------------------------------- bounds
\* Number of start() calls that may spawn a simulation thread.
MaxStarts == 2
\* Number of ticks the simulation threads may run, all together.
MaxTicks == 2
\* Number of ticks of the long run of one simulation thread: past the wrap of
\* x at 64 and the two wraps of y at 32.
MaxLoopTicks == 66
\* Number of different displays handed to Renderer::attach_display.
MaxDisplays == 3

\* ------------------------------------------------------ program constants
WIDTH == 64
HEIGHT == 32
ChannelCapacity == 1

Threads == 1..MaxStarts

\* Holders of the slot's Mutex: a simulation thread, the UI thread, nobody.
UiThread == 0
Free == -1

\* Option<T>: None is the empty sequence, Some(v) the one-element sequence.
None == <<>>
Some(v) == <<v>>

VARIABLES
    should_run,                 \* Emulator.should_run (AtomicBool)
    frame_ready_to_render,      \* Emulator.frame_ready_to_render (AtomicBool)
    display,                    \* Emulator.display: content of the slot, Option<display>
    lock,                       \* holder of the slot's Mutex: Free, UiThread or a thread
    chan,                       \* the bounded(1) channel of display references
    spawned,                    \* number of simulation threads spawned by start()
    pc,                         \* pc[t]: position of simulation thread t
    xs, ys,                     \* main_run_loop's locals x and y, per thread
    uiPc,                       \* position of the UI thread in prepare/paint
    new_display,                \* prepare's local new_display (Option)
    frame_ready_obs,            \* prepare's local frame_ready_to_render
    tracker,                    \* DisplayNeedsFrameRenderedTracker (AtomicBool)
    r_display,                  \* Renderer.display
    r_display_texture,          \* Renderer.display_texture
    r_display_texture_bind_group, \* Renderer.display_texture_bind_group
    hist,                       \* history of the run, read only by the properties
    ram,                        \* Emulator.ram: the bytes of Ram.mem
    call,                       \* the last call of a Ram, Font or Display method
    senders                     \* live Sender handles of the channel, one per Emulator

shared == <<should_run, frame_ready_to_render, display, lock, chan>>
simLocals == <<spawned, pc, xs, ys>>
uiLocals == <<uiPc, new_display, frame_ready_obs, tracker>>
renderer == <<r_display, r_display_texture, r_display_texture_bind_group>>
vars == <<shared, simLocals, uiLocals, renderer, hist, ram, call, senders>>

\* ---------------------------------------------------------------- displays
\* A display buffer is kept sparsely: a function from the pixels whose value
\* differs from the value given at construction to their current RGBA value.
EmptyBuf == [p \in {} |-> <<0, 0, 0, 0>>]

\* Chip8Display::new: a checkerboard with four coloured corner pixels.
Chip8InitPixel(p) ==
    IF p = <<0, 0>> THEN <<255, 0, 0, 255>>
    ELSE IF p = <<63, 0>> THEN <<0, 255, 0, 255>>
    ELSE IF p = <<0, 31>> THEN <<0, 0, 255, 255>>
    ELSE IF p = <<63, 31>> THEN <<255, 0, 255, 255>>
    ELSE IF (p[1] % 2 = 0 /\ p[2] % 2 # 0) \/ (p[1] % 2 # 0 /\ p[2] % 2 = 0)
         THEN <<0, 0, 0, 255>>
         ELSE <<255, 255, 255, 255>>

\* BlankDisplay::new: ImageBuffer::new(1, 1), one zeroed pixel.
BlankInitPixel(p) == <<0, 0, 0, 0>>

\* id is the attach that installed the display (0: none), a history tag.
Chip8Display_new(id) == [kind |-> "Chip8Display", dims |-> <<WIDTH, HEIGHT>>,
                         buf |-> EmptyBuf, id |-> id]

BlankDisplay_new(id) == [kind |-> "BlankDisplay", dims |-> <<1, 1>>,
                         buf |-> EmptyBuf, id |-> id]

InitPixel(d, p) ==
    IF d.kind = "Chip8Display" THEN Chip8InitPixel(p) ELSE BlankInitPixel(p)

dimensions(d) == IF d.kind = "BlankDisplay" THEN <<1, 1>> ELSE d.dims

is_srgb(d) == FALSE

as_rgba8_image(d) == d.buf

PixelAt(d, p) == IF p \in DOMAIN d.buf THEN d.buf[p] ELSE InitPixel(d, p)

Invert_with_alpha(px) == <<255 - px[1], 255 - px[2], 255 - px[3], 255 - px[4]>>

Invert_monochrome(px) ==
    IF px = <<255, 255, 255, 255>> THEN <<0, 0, 0, 255>> ELSE <<255, 255, 255, 255>>

\* image::Pixel::invert on Rgba<u8>: the colour channels, not alpha.
Invert(px) == <<255 - px[1], 255 - px[2], 255 - px[3], px[4]>>

SetPixel(d, p, v) ==
    IF v = InitPixel(d, p)
    THEN [d EXCEPT !.buf = [q \in (DOMAIN d.buf) \ {p} |-> d.buf[q]]]
    ELSE [d EXCEPT !.buf = [q \in (DOMAIN d.buf) \cup {p} |->
                                IF q = p THEN v ELSE d.buf[q]]]

Chip8Display_flip_pixel_nowrap(d, x, y) ==
    LET p == <<x, y>>
    IN  SetPixel(d, p, Invert(PixelAt(d, p)))

\* Chip8Display::flip_pixel: get_pixel_mut at (x % WIDTH, y % HEIGHT), inverted.
Chip8Display_flip_pixel(d, x, y) ==
    LET p == <<x % WIDTH, y % HEIGHT>>
    IN  SetPixel(d, p, Invert(PixelAt(d, p)))

BlankDisplay_flip_pixel_inverting(d, x, y) ==
    SetPixel(d, <<0, 0>>, Invert(PixelAt(d, <<0, 0>>)))

\* BlankDisplay::flip_pixel: a no-op.
BlankDisplay_flip_pixel(d, x, y) == d

flip_pixel(d, x, y) ==
    IF d.kind = "Chip8Display" THEN Chip8Display_flip_pixel(d, x, y)
    ELSE BlankDisplay_flip_pixel(d, x, y)

\* ImageBuffer::get_pixel_mut panics on a coordinate outside the buffer;
\* BlankDisplay::flip_pixel touches nothing.
flip_pixel_panics(d, x, y) ==
    IF d.kind = "Chip8Display"
    THEN ~(x % WIDTH < d.dims[1] /\ y % HEIGHT < d.dims[2])
    ELSE FALSE

\* ---------------------------------------------------------------- texture
from_chip8_display_transposed(d, tag) ==
    [size |-> <<dimensions(d)[2], dimensions(d)[1]>>, srgb |-> is_srgb(d),
     data |-> as_rgba8_image(d), tag |-> tag]

\* WgpuDisplayTexture::from_chip8_display; tag names the attach it was made for.
from_chip8_display(d, tag) ==
    [size |-> dimensions(d), srgb |-> is_srgb(d), data |-> as_rgba8_image(d),
     tag |-> tag]

WgpuDisplayTexture_update_and(tex, d) ==
    LET new_dims == dimensions(d)
    IN  IF new_dims[1] # tex.size[1] /\ new_dims[2] # tex.size[2]
        THEN [result |-> <<"DimensionsChanged", tex.size, new_dims>>,
              texture |-> tex, writes |-> 0]
        ELSE [result |-> <<"Ok">>,
              texture |-> [tex EXCEPT !.data = as_rgba8_image(d)], writes |-> 1]

\* WgpuDisplayTexture::update: the result, the resource afterwards and the
\* number of queue.write_texture calls made.
WgpuDisplayTexture_update(tex, d) ==
    LET new_dims == dimensions(d)
    IN  IF new_dims[1] # tex.size[1] \/ new_dims[2] # tex.size[2]
        THEN [result |-> <<"DimensionsChanged", tex.size, new_dims>>,
              texture |-> tex, writes |-> 0]
        ELSE [result |-> <<"Ok">>,
              texture |-> [tex EXCEPT !.data = as_rgba8_image(d)], writes |-> 1]

Min(a, b) == IF a < b THEN a ELSE b

\* -------------------------------------------------------------------- font
\* Font: the sixteen characters Char0..CharF, by discriminant.
Font == 0..15

\* Font::PREFERRED_TABLE_STARTING_ADDRESS, 0x050
PREFERRED_TABLE_STARTING_ADDRESS == 80

\* Font::as_bytes
as_bytes(g) ==
    CASE g = 0  -> <<240, 144, 144, 144, 240>>
      [] g = 1  -> <<32, 96, 32, 32, 112>>
      [] g = 2  -> <<240, 16, 240, 128, 240>>
      [] g = 3  -> <<240, 16, 240, 16, 240>>
      [] g = 4  -> <<144, 144, 240, 16, 16>>
      [] g = 5  -> <<240, 128, 240, 16, 240>>
      [] g = 6  -> <<240, 128, 240, 144, 240>>
      [] g = 7  -> <<240, 16, 32, 64, 64>>
      [] g = 8  -> <<240, 144, 240, 144, 240>>
      [] g = 9  -> <<240, 144, 240, 16, 240>>
      [] g = 10 -> <<240, 144, 240, 144, 144>>
      [] g = 11 -> <<224, 144, 224, 144, 224>>
      [] g = 12 -> <<240, 128, 128, 128, 240>>
      [] g = 13 -> <<224, 144, 144, 144, 224>>
      [] g = 14 -> <<240, 128, 240, 128, 240>>
      [] g = 15 -> <<240, 128, 240, 128, 128>>

\* Font::get_table_as_bytes: the literal of 80 bytes.
get_table_as_bytes ==
    <<240, 144, 144, 144, 240,
      32, 96, 32, 32, 112,
      240, 16, 240, 128, 240,
      240, 16, 240, 16, 240,
      144, 144, 240, 16, 16,
      240, 128, 240, 16, 240,
      240, 128, 240, 144, 240,
      240, 16, 32, 64, 64,
      240, 144, 240, 144, 240,
      240, 144, 240, 16, 240,
      240, 144, 240, 144, 144,
      224, 144, 224, 144, 224,
      240, 128, 128, 128, 240,
      224, 144, 144, 144, 224,
      240, 128, 240, 128, 240,
      240, 128, 240, 128, 128>>

table_offset_width4(g) == ((g * 4) % 256)

\* Font::table_offset: ((*self as u8) * 5) as usize, a u8 product.
table_offset(g) == ((g * 5) % 256)

\* --------------------------------------------------------------------- ram
RAM_SIZE == 4096

\* A u16 sum wraps at 2^16.
U16 == 65536

\* The bitwise and of two naturals, bit by bit.
RECURSIVE BitAnd(_, _)
BitAnd(a, b) ==
    IF a = 0 \/ b = 0 THEN 0
    ELSE (a % 2) * (b % 2) + 2 * BitAnd(a \div 2, b \div 2)

clean_addr_unmasked(addr) == addr

\* clean_addr: addr & 0b0000_1111_1111_1111
clean_addr(addr) == BitAnd(addr, 4095)

addr_to_usize_unmasked(addr) == addr

\* addr_to_usize
addr_to_usize(addr) == clean_addr(addr)

\* Ram.mem, [u8; 4096], is kept sparsely: a function from the indices whose
\* byte is not zero to that byte.
ZeroMem == [i \in {} |-> 0]

MemAt(mem, i) == IF i \in DOMAIN mem THEN mem[i] ELSE 0

\* mem[i] = v; an index outside the array panics.
MemWrite(mem, i, v) ==
    IF v = 0
    THEN [j \in (DOMAIN mem) \ {i} |-> mem[j]]
    ELSE [j \in (DOMAIN mem) \cup {i} |-> IF j = i THEN v ELSE mem[j]]

Ram_new_off_by_one ==
    LET base == addr_to_usize(PREFERRED_TABLE_STARTING_ADDRESS) + 1
        written == {base + i : i \in 0..(Len(get_table_as_bytes) - 1)}
    IN  [j \in {k \in written : get_table_as_bytes[k - base + 1] # 0} |->
            get_table_as_bytes[j - base + 1]]

\* Ram::new: mem starts zeroed, and the loop copies FONT_TABLE, byte i to
\* mem[addr_to_usize(PREFERRED_TABLE_STARTING_ADDRESS) + i].
Ram_new ==
    LET base == addr_to_usize(PREFERRED_TABLE_STARTING_ADDRESS)
        written == {base + i : i \in 0..(Len(get_table_as_bytes) - 1)}
    IN  [j \in {k \in written : get_table_as_bytes[k - base + 1] # 0} |->
            get_table_as_bytes[j - base + 1]]

\* Ram::get and Index::index: &self.mem[addr_to_usize(addr)]
Ram_get(mem, addr) ==
    LET i == addr_to_usize(addr)
    IN  [panicked |-> ~(i < RAM_SIZE), index |-> i, value |-> MemAt(mem, i)]

\* Ram::get_mut and IndexMut::index_mut: the place a write through the
\* returned reference changes.
Ram_get_mut(mem, addr) ==
    LET i == addr_to_usize(addr)
    IN  [panicked |-> ~(i < RAM_SIZE), index |-> i, value |-> MemAt(mem, i)]

Ram_set_protected(mem, addr, val) ==
    LET i == addr_to_usize(addr)
    IN  [panicked |-> ~(i < RAM_SIZE),
         mem |-> IF i < 512 THEN mem ELSE MemWrite(mem, i, val)]

\* Ram::set: self.mem[addr_to_usize(addr)] = val
Ram_set(mem, addr, val) ==
    LET i == addr_to_usize(addr)
    IN  [panicked |-> ~(i < RAM_SIZE),
         mem |-> IF i < RAM_SIZE THEN MemWrite(mem, i, val) ELSE mem]

\* Bound<u16>
Included(a) == <<"Included", a>>
Excluded(a) == <<"Excluded", a>>
Unbounded == <<"Unbounded">>

\* normalize_addr_range: the Range<u16> start..end
normalize_addr_range(start_bound, end_bound) ==
    [start |-> CASE start_bound[1] = "Included" -> clean_addr(start_bound[2])
                 [] start_bound[1] = "Excluded" ->
                        Min((clean_addr(start_bound[2]) + 1) % U16, RAM_SIZE - 1)
                 [] start_bound[1] = "Unbounded" -> 0,
     end   |-> CASE end_bound[1] = "Included" ->
                        Min((clean_addr(end_bound[2]) + 1) % U16, RAM_SIZE)
                 [] end_bound[1] = "Excluded" -> clean_addr(end_bound[2])
                 [] end_bound[1] = "Unbounded" -> RAM_SIZE]

\* addr_range_to_usize_range
addr_range_to_usize_range(start_bound, end_bound) ==
    normalize_addr_range(start_bound, end_bound)

\* Ram::get_range and Ram::get_range_mut: &self.mem[start..end], a view of
\* mem from start to end; slicing panics when start > end or end > len.
Ram_get_range(mem, start_bound, end_bound) ==
    LET r == addr_range_to_usize_range(start_bound, end_bound)
    IN  [panicked |-> r.start > r.end \/ r.end > RAM_SIZE,
         start |-> r.start, end |-> r.end]

\* The bytes a view start..end of mem shows.
SliceBytes(mem, start, end) == [k \in 1..(end - start) |-> MemAt(mem, start + k - 1)]

\* -------------------------------------------------------------------- init
\* The history of the run: the attaches pushed and received, what the current
\* presentation cycle has done, which threads have seen a stop() and the last
\* texture update. Written by the actions, read only by the properties.
HistInit ==
    [sent |-> <<>>, received |-> <<>>,
     drawn |-> FALSE, uploaded |-> FALSE, raised |-> FALSE,
     stopped |-> [t \in Threads |-> FALSE],
     flips_after_stop |-> [t \in Threads |-> 0],
     last_update |-> None,
     repaint_requests |-> 0,
     ticks |-> [t \in Threads |-> 0],
     disconnect_reported |-> FALSE]

Init_receiver_only ==
    /\ should_run = FALSE
    /\ frame_ready_to_render = TRUE
    /\ display = None
    /\ lock = Free
    /\ chan = <<>>
    /\ spawned = 0
    /\ pc = [t \in Threads |-> "unborn"]
    /\ xs = [t \in Threads |-> 0]
    /\ ys = [t \in Threads |-> 0]
    /\ uiPc = "idle"
    /\ new_display = None
    /\ frame_ready_obs = FALSE
    /\ tracker = FALSE
    /\ r_display = None
    /\ r_display_texture = None
    /\ r_display_texture_bind_group = None
    /\ hist = HistInit
    /\ ram = Ram_new
    /\ call = None
    /\ senders = 0

\* Emulator::new, Renderer::new and App::new: nothing is running, the slot is
\* empty, the channel is empty, an initial frame is owed.
Init ==
    /\ should_run = FALSE
    /\ frame_ready_to_render = TRUE
    /\ display = None
    /\ lock = Free
    /\ chan = <<>>
    /\ spawned = 0
    /\ pc = [t \in Threads |-> "unborn"]
    /\ xs = [t \in Threads |-> 0]
    /\ ys = [t \in Threads |-> 0]
    /\ uiPc = "idle"
    /\ new_display = None
    /\ frame_ready_obs = FALSE
    /\ tracker = FALSE
    /\ r_display = None
    /\ r_display_texture = None
    /\ r_display_texture_bind_group = None
    /\ hist = HistInit
    /\ ram = Ram_new
    /\ call = None
    /\ senders = 1

\* ----------------------------------------------------- Emulator: the flag
\* A tick's raise made while a presentation cycle is between its read of the
\* flag and the end of its paint is remembered in hist.raised.
InCycleAfterRead == uiPc \notin {"idle", "read_flag", "panicked"}

set_frame_ready_to_render_toggle ==
    frame_ready_to_render' = ~frame_ready_to_render

\* Emulator::set_frame_ready_to_render
set_frame_ready_to_render ==
    frame_ready_to_render' = TRUE

\* Emulator::notify_frame_rendered
notify_frame_rendered ==
    frame_ready_to_render' = FALSE

\* ----------------------------------------------------- Emulator: start/stop
\* Emulator::start, called on any clone: an error when should_run reads true,
\* else a new thread that will run main_run_loop.
start ==
    /\ spawned < MaxStarts
    /\ IF should_run
       THEN UNCHANGED <<spawned, pc, senders>>
       ELSE /\ spawned' = spawned + 1
            /\ pc' = [pc EXCEPT ![spawned + 1] = "store_run"]
            /\ senders' = senders + 1
    /\ UNCHANGED <<shared, xs, ys, uiLocals, ram, call, renderer, hist>>

\* Emulator::stop
stop ==
    /\ should_run' = FALSE
    /\ hist' = [hist EXCEPT !.stopped = [t \in Threads |-> @[t] \/ pc[t] # "unborn"]]
    /\ UNCHANGED <<frame_ready_to_render, display, lock, chan,
                   simLocals, uiLocals, ram, senders, call, renderer>>

\* ------------------------------------------------ Emulator::main_run_loop
Goto(t, l) == pc' = [pc EXCEPT ![t] = l]

RunLoopStore_no_attach(t) ==
    /\ pc[t] = "store_run"
    /\ should_run' = TRUE
    /\ Goto(t, "loop_check")
    /\ UNCHANGED <<frame_ready_to_render, display, lock, chan,
                   spawned, xs, ys, uiLocals, ram, senders, call, renderer, hist>>

\* self.should_run.store(true)
RunLoopStore(t) ==
    /\ pc[t] = "store_run"
    /\ should_run' = TRUE
    /\ Goto(t, "attach_install")
    /\ UNCHANGED <<frame_ready_to_render, display, lock, chan,
                   spawned, xs, ys, uiLocals, ram, senders, call, renderer, hist>>

AttachInstall_holding(t) ==
    /\ pc[t] = "attach_install"
    /\ lock = Free
    /\ display' = Some(Chip8Display_new(t))
    /\ lock' = t
    /\ Goto(t, "attach_send")
    /\ UNCHANGED <<should_run, frame_ready_to_render, chan,
                   spawned, xs, ys, uiLocals, ram, senders, call, renderer, hist>>

AttachInstall_skip(t) ==
    /\ pc[t] = "attach_install"
    /\ lock = Free
    /\ Goto(t, "attach_send")
    /\ UNCHANGED <<should_run, frame_ready_to_render, display, lock, chan,
                   spawned, xs, ys, uiLocals, ram, senders, call, renderer, hist>>

AttachInstall_unlocked(t) ==
    /\ pc[t] = "attach_install"
    /\ display' = Some(Chip8Display_new(t))
    /\ Goto(t, "attach_send")
    /\ UNCHANGED <<should_run, frame_ready_to_render, lock, chan,
                   spawned, xs, ys, uiLocals, ram, senders, call, renderer, hist>>

\* attach_display: *self.display.lock().unwrap() = Some(display); the lock is
\* taken, the new display installed and the guard dropped in this statement.
AttachInstall(t) ==
    /\ pc[t] = "attach_install"
    /\ lock = Free
    /\ display' = Some(Chip8Display_new(t))
    /\ lock' = Free
    /\ Goto(t, "attach_send")
    /\ UNCHANGED <<should_run, frame_ready_to_render, chan,
                   spawned, xs, ys, uiLocals, ram, senders, call, renderer, hist>>

AttachSend_overwrite(t) ==
    /\ pc[t] = "attach_send"
    /\ chan' = IF Len(chan) < ChannelCapacity THEN Append(chan, t) ELSE <<t>>
    /\ hist' = [hist EXCEPT !.sent = Append(@, t)]
    /\ Goto(t, "attach_set_ready")
    /\ UNCHANGED <<should_run, frame_ready_to_render, display, lock,
                   spawned, xs, ys, uiLocals, ram, senders, call, renderer>>

AttachSend_unbounded(t) ==
    /\ pc[t] = "attach_send"
    /\ chan' = Append(chan, t)
    /\ hist' = [hist EXCEPT !.sent = Append(@, t)]
    /\ Goto(t, "attach_set_ready")
    /\ UNCHANGED <<should_run, frame_ready_to_render, display, lock,
                   spawned, xs, ys, uiLocals, ram, senders, call, renderer>>

AttachSend_drop(t) ==
    /\ pc[t] = "attach_send"
    /\ chan' = IF Len(chan) < ChannelCapacity THEN Append(chan, t) ELSE chan
    /\ hist' = [hist EXCEPT !.sent = Append(@, t)]
    /\ Goto(t, "attach_set_ready")
    /\ UNCHANGED <<should_run, frame_ready_to_render, display, lock,
                   spawned, xs, ys, uiLocals, ram, senders, call, renderer>>

\* attach_display: self.display_ref_sender.send(..), blocking while the
\* channel is full. Every message is a clone of the same slot reference; the
\* model tags it with the attach that pushed it.
AttachSend(t) ==
    /\ pc[t] = "attach_send"
    /\ Len(chan) < ChannelCapacity
    /\ chan' = Append(chan, t)
    /\ hist' = [hist EXCEPT !.sent = Append(@, t)]
    /\ Goto(t, "attach_set_ready")
    /\ UNCHANGED <<should_run, frame_ready_to_render, display, lock,
                   spawned, xs, ys, uiLocals, ram, senders, call, renderer>>

\* attach_display: self.set_frame_ready_to_render(), then
\* egui_context.request_repaint(), which wakes the UI thread; the thread is
\* back in main_run_loop.
AttachSetReady(t) ==
    /\ pc[t] = "attach_set_ready"
    /\ set_frame_ready_to_render
    /\ hist' = [hist EXCEPT !.repaint_requests = @ + 1]
    /\ Goto(t, "loop_check")
    /\ UNCHANGED <<should_run, display, lock, chan,
                   spawned, xs, ys, uiLocals, ram, senders, call, renderer>>

\* The ticks begun so far by all the threads.
RECURSIVE TicksBegun(_)
TicksBegun(n) ==
    IF n = 0 THEN 0
    ELSE TicksBegun(n - 1) + xs[n]
         + (IF pc[n] \in {"tick_lock", "tick_flip"} THEN 1 ELSE 0)

\* while self.should_run.load(): one more tick, or the thread returns.
LoopCheck(t) ==
    /\ pc[t] = "loop_check"
    /\ should_run => TicksBegun(MaxStarts) < MaxTicks
    /\ Goto(t, IF should_run THEN "tick_lock" ELSE "exited")
    /\ senders' = IF should_run THEN senders ELSE senders - 1
    /\ UNCHANGED <<shared, spawned, xs, ys, uiLocals, ram, call, renderer, hist>>

TickLock_unguarded(t) ==
    /\ pc[t] = "tick_lock"
    /\ lock' = t
    /\ Goto(t, "tick_flip")
    /\ UNCHANGED <<should_run, frame_ready_to_render, display, chan,
                   spawned, xs, ys, uiLocals, ram, senders, call, renderer, hist>>

\* let mut display = self.display.lock().unwrap()
TickLock(t) ==
    /\ pc[t] = "tick_lock"
    /\ lock = Free
    /\ lock' = t
    /\ Goto(t, "tick_flip")
    /\ UNCHANGED <<should_run, frame_ready_to_render, display, chan,
                   spawned, xs, ys, uiLocals, ram, senders, call, renderer, hist>>

TickFlip_wrap_y_at_width(t) ==
    /\ pc[t] = "tick_flip"
    /\ lock' = Free
    /\ IF display = None
       THEN /\ Goto(t, "panicked")
            /\ senders' = senders - 1
            /\ UNCHANGED <<display, xs, ys, hist>>
       ELSE /\ display' = Some(flip_pixel(display[1], xs[t], ys[t]))
            /\ xs' = [xs EXCEPT ![t] = (@ + 1) % 64]
            /\ ys' = [ys EXCEPT ![t] = (@ + 1) % 64]
            /\ hist' = [hist EXCEPT !.flips_after_stop[t] =
                            IF hist.stopped[t] THEN Min(2, @ + 1) ELSE @,
                                    !.ticks[t] = @ + 1]
            /\ senders' = senders
            /\ Goto(t, "tick_set_ready")
    /\ UNCHANGED <<should_run, frame_ready_to_render, chan,
                   spawned, uiLocals, ram, call, renderer>>

\* display.as_mut().unwrap().flip_pixel(x, y); the guard is dropped; then
\* x = (x + 1) % 64 and y = (y + 1) % 32. An empty slot panics the thread.
TickFlip(t) ==
    /\ pc[t] = "tick_flip"
    /\ lock' = Free
    /\ IF display = None
       THEN /\ Goto(t, "panicked")
            /\ senders' = senders - 1
            /\ UNCHANGED <<display, xs, ys, hist>>
       ELSE /\ display' = Some(flip_pixel(display[1], xs[t], ys[t]))
            /\ xs' = [xs EXCEPT ![t] = (@ + 1) % 64]
            /\ ys' = [ys EXCEPT ![t] = (@ + 1) % 32]
            /\ hist' = [hist EXCEPT !.flips_after_stop[t] =
                            IF hist.stopped[t] THEN Min(2, @ + 1) ELSE @,
                                    !.ticks[t] = @ + 1]
            /\ senders' = senders
            /\ Goto(t, "tick_set_ready")
    /\ UNCHANGED <<should_run, frame_ready_to_render, chan,
                   spawned, uiLocals, ram, call, renderer>>

TickSetReady_no_repaint(t) ==
    /\ pc[t] = "tick_set_ready"
    /\ set_frame_ready_to_render
    /\ hist' = [hist EXCEPT !.raised = @ \/ InCycleAfterRead]
    /\ Goto(t, "loop_check")
    /\ UNCHANGED <<should_run, display, lock, chan,
                   spawned, xs, ys, uiLocals, ram, senders, call, renderer>>

\* self.set_frame_ready_to_render(); egui_context.request_repaint(), which
\* wakes the UI thread; thread::sleep(10 ms)
TickSetReady(t) ==
    /\ pc[t] = "tick_set_ready"
    /\ set_frame_ready_to_render
    /\ hist' = [hist EXCEPT !.raised = @ \/ InCycleAfterRead,
                            !.repaint_requests = @ + 1]
    /\ Goto(t, "loop_check")
    /\ UNCHANGED <<should_run, display, lock, chan,
                   spawned, xs, ys, uiLocals, ram, senders, call, renderer>>

SimThread(t) ==
    \/ RunLoopStore(t)
    \/ AttachInstall(t)
    \/ AttachSend(t)
    \/ AttachSetReady(t)
    \/ LoopCheck(t)
    \/ TickLock(t)
    \/ TickFlip(t)
    \/ TickSetReady(t)

\* --------------------------------------------------------------- Renderer
\* Renderer::update_display_texture: with a display and a texture attached,
\* the texture is updated from the display in the slot; with none attached
\* there is nothing to upload. Called with the slot's lock held.
Renderer_update_display_texture(rd, tex, slot) ==
    IF rd = None \/ tex = None \/ slot = None
    THEN [result |-> <<"Ok">>, texture |-> tex, writes |-> 0]
    ELSE LET r == WgpuDisplayTexture_update(tex[1], slot[1])
         IN  [result |-> r.result, texture |-> Some(r.texture), writes |-> r.writes]

\* crossbeam's Receiver::try_recv: a pending message is received; an empty
\* channel is Disconnected when every Sender has been dropped, Empty otherwise.
try_recv(ch, snd) ==
    IF ch # <<>> THEN "Ok" ELSE IF snd = 0 THEN "Disconnected" ELSE "Empty"

\* ------------------------------------- App::custom_painting: prepare, paint
\* Where prepare goes once the new display, if any, has been attached.
AfterAttach(ready, rd) ==
    IF ready THEN (IF rd = None THEN "track" ELSE "update_lock") ELSE "paint"

UiTryRecv_blocking ==
    /\ uiPc = "idle"
    /\ chan # <<>>
    /\ new_display' = Some(Head(chan))
    /\ chan' = Tail(chan)
    /\ hist' = [hist EXCEPT !.received = Append(@, Head(chan)),
                            !.drawn = FALSE, !.uploaded = FALSE,
                            !.raised = FALSE, !.disconnect_reported = FALSE]
    /\ uiPc' = "read_flag"
    /\ UNCHANGED <<should_run, frame_ready_to_render, display, lock, simLocals, ram, senders, call,
                   frame_ready_obs, tracker, renderer>>

UiTryRecv_unwrap ==
    /\ uiPc = "idle"
    /\ IF try_recv(chan, senders) = "Ok"
       THEN /\ new_display' = Some(Head(chan))
            /\ chan' = Tail(chan)
            /\ hist' = [hist EXCEPT !.received = Append(@, Head(chan)),
                                    !.drawn = FALSE, !.uploaded = FALSE,
                                    !.raised = FALSE,
                                    !.disconnect_reported = FALSE]
       ELSE /\ new_display' = None
            /\ chan' = chan
            /\ hist' = [hist EXCEPT !.drawn = FALSE, !.uploaded = FALSE,
                                    !.raised = FALSE,
                                    !.disconnect_reported = FALSE]
    /\ uiPc' = IF try_recv(chan, senders) = "Disconnected"
               THEN "panicked" ELSE "read_flag"
    /\ UNCHANGED <<should_run, frame_ready_to_render, display, lock, simLocals, ram, senders, call,
                   frame_ready_obs, tracker, renderer>>

\* prepare: emulator.display_ref_receiver.try_recv(). Ok is a new display,
\* Empty is no new display, Disconnected is logged with tracing::error! and
\* is no new display either. A new presentation cycle starts here.
UiTryRecv ==
    /\ uiPc = "idle"
    /\ IF try_recv(chan, senders) = "Ok"
       THEN /\ new_display' = Some(Head(chan))
            /\ chan' = Tail(chan)
            /\ hist' = [hist EXCEPT !.received = Append(@, Head(chan)),
                                    !.drawn = FALSE, !.uploaded = FALSE,
                                    !.raised = FALSE,
                                    !.disconnect_reported = FALSE]
       ELSE /\ new_display' = None
            /\ chan' = chan
            /\ hist' = [hist EXCEPT !.drawn = FALSE, !.uploaded = FALSE,
                                    !.raised = FALSE,
                                    !.disconnect_reported =
                                        (try_recv(chan, senders) = "Disconnected")]
    /\ uiPc' = "read_flag"
    /\ UNCHANGED <<should_run, frame_ready_to_render, display, lock, simLocals, ram, senders, call,
                   frame_ready_obs, tracker, renderer>>

\* prepare: let frame_ready_to_render = emulator.is_frame_ready_to_render()
UiReadFlag ==
    /\ uiPc = "read_flag"
    /\ frame_ready_obs' = frame_ready_to_render
    /\ uiPc' = IF new_display # None THEN "attach_lock"
               ELSE AfterAttach(frame_ready_to_render, r_display)
    /\ UNCHANGED <<shared, simLocals, ram, senders, call, new_display, tracker, renderer, hist>>

\* Renderer::attach_display: new_display.lock().unwrap()
UiAttachLock ==
    /\ uiPc = "attach_lock"
    /\ lock = Free
    /\ lock' = UiThread
    /\ uiPc' = "attach_create"
    /\ UNCHANGED <<should_run, frame_ready_to_render, display, chan,
                   simLocals, ram, senders, call, new_display, frame_ready_obs,
                   tracker, renderer, hist>>

UiAttachCreate_reuse_texture ==
    /\ uiPc = "attach_create"
    /\ lock' = Free
    /\ IF display = None
       THEN /\ uiPc' = "panicked"
            /\ UNCHANGED <<renderer, hist>>
       ELSE /\ r_display' = new_display
            /\ r_display_texture' =
                   IF r_display_texture # None THEN r_display_texture
                   ELSE Some(from_chip8_display(display[1], new_display[1]))
            /\ r_display_texture_bind_group' = Some(new_display[1])
            /\ hist' = [hist EXCEPT !.uploaded = TRUE]
            /\ uiPc' = AfterAttach(frame_ready_obs, new_display)
    /\ UNCHANGED <<should_run, frame_ready_to_render, display, chan,
                   simLocals, ram, senders, call, new_display, frame_ready_obs, tracker>>

UiAttachCreate_blank ==
    /\ uiPc = "attach_create"
    /\ lock' = Free
    /\ IF display = None
       THEN /\ uiPc' = "panicked"
            /\ UNCHANGED <<renderer, hist>>
       ELSE /\ r_display' = new_display
            /\ r_display_texture' =
                   Some(from_chip8_display(BlankDisplay_new(0), new_display[1]))
            /\ r_display_texture_bind_group' = Some(new_display[1])
            /\ hist' = [hist EXCEPT !.uploaded = TRUE]
            /\ uiPc' = AfterAttach(frame_ready_obs, new_display)
    /\ UNCHANGED <<should_run, frame_ready_to_render, display, chan,
                   simLocals, ram, senders, call, new_display, frame_ready_obs, tracker>>

UiAttachCreate_forget ==
    /\ uiPc = "attach_create"
    /\ lock' = Free
    /\ IF display = None
       THEN /\ uiPc' = "panicked"
            /\ UNCHANGED <<renderer, hist>>
       ELSE /\ r_display' = r_display
            /\ r_display_texture' = Some(from_chip8_display(display[1], new_display[1]))
            /\ r_display_texture_bind_group' = Some(new_display[1])
            /\ hist' = [hist EXCEPT !.uploaded = TRUE]
            /\ uiPc' = AfterAttach(frame_ready_obs, new_display)
    /\ UNCHANGED <<should_run, frame_ready_to_render, display, chan,
                   simLocals, ram, senders, call, new_display, frame_ready_obs, tracker>>

\* Renderer::attach_display: the texture and the bind group are created from
\* the display in the slot, the guard is dropped, the three fields are set.
UiAttachCreate ==
    /\ uiPc = "attach_create"
    /\ lock' = Free
    /\ IF display = None
       THEN /\ uiPc' = "panicked"
            /\ UNCHANGED <<renderer, hist>>
       ELSE /\ r_display' = new_display
            /\ r_display_texture' = Some(from_chip8_display(display[1], new_display[1]))
            /\ r_display_texture_bind_group' = Some(new_display[1])
            /\ hist' = [hist EXCEPT !.uploaded = TRUE]
            /\ uiPc' = AfterAttach(frame_ready_obs, new_display)
    /\ UNCHANGED <<should_run, frame_ready_to_render, display, chan,
                   simLocals, ram, senders, call, new_display, frame_ready_obs, tracker>>

\* Renderer::update_display_texture: the slot is locked for the upload
UiUpdateLock ==
    /\ uiPc = "update_lock"
    /\ lock = Free
    /\ lock' = UiThread
    /\ uiPc' = "update"
    /\ UNCHANGED <<should_run, frame_ready_to_render, display, chan,
                   simLocals, ram, senders, call, new_display, frame_ready_obs,
                   tracker, renderer, hist>>

\* What hist.last_update keeps of one call of WgpuDisplayTexture::update.
UpdateRecord(tex, slot, r) ==
    IF tex = None \/ slot = None THEN None
    ELSE Some([size |-> tex[1].size, dims |-> dimensions(slot[1]),
               result |-> r.result, writes |-> r.writes,
               size_after |-> r.texture[1].size])

UiUpdate_ignore_error ==
    LET r == Renderer_update_display_texture(r_display, r_display_texture, display)
    IN  /\ uiPc = "update"
        /\ lock' = Free
        /\ hist' = [hist EXCEPT
               !.last_update = UpdateRecord(r_display_texture, display, r),
               !.uploaded = @ \/ r.writes > 0]
        /\ r_display_texture' = r.texture
        /\ uiPc' = "track"
        /\ UNCHANGED <<should_run, frame_ready_to_render, display, chan,
                       simLocals, ram, senders, call, new_display, frame_ready_obs,
                       tracker, r_display, r_display_texture_bind_group>>

\* prepare: renderer.update_display_texture(queue).expect(..): the upload, or
\* a panic of the UI thread on DimensionsChanged.
UiUpdate ==
    LET r == Renderer_update_display_texture(r_display, r_display_texture, display)
    IN  /\ uiPc = "update"
        /\ lock' = Free
        /\ hist' = [hist EXCEPT
               !.last_update = UpdateRecord(r_display_texture, display, r),
               !.uploaded = @ \/ r.writes > 0]
        /\ r_display_texture' = r.texture
        /\ uiPc' = IF r.result = <<"Ok">> THEN "track" ELSE "panicked"
        /\ UNCHANGED <<should_run, frame_ready_to_render, display, chan,
                       simLocals, ram, senders, call, new_display, frame_ready_obs,
                       tracker, r_display, r_display_texture_bind_group>>

\* prepare: display_needs_frame_rendered_tracker.store(true)
UiTrack ==
    /\ uiPc = "track"
    /\ tracker' = TRUE
    /\ uiPc' = "paint"
    /\ UNCHANGED <<shared, simLocals, ram, senders, call, new_display, frame_ready_obs, renderer, hist>>

UiPaint_always_notify ==
    /\ uiPc = "paint"
    /\ hist' = [hist EXCEPT !.drawn = TRUE]
    /\ tracker' = FALSE
    /\ uiPc' = "notify"
    /\ UNCHANGED <<shared, simLocals, ram, senders, call, new_display, frame_ready_obs, renderer>>

\* paint: renderer.render(render_pass), the draw call, and then
\* display_needs_frame_rendered_tracker.fetch_and(false)
UiPaint ==
    /\ uiPc = "paint"
    /\ hist' = [hist EXCEPT !.drawn = TRUE]
    /\ tracker' = FALSE
    /\ uiPc' = IF tracker THEN "notify" ELSE "idle"
    /\ UNCHANGED <<shared, simLocals, ram, senders, call, new_display, frame_ready_obs, renderer>>

\* paint: emulator.notify_frame_rendered()
UiNotify ==
    /\ uiPc = "notify"
    /\ notify_frame_rendered
    /\ uiPc' = "idle"
    /\ UNCHANGED <<should_run, display, lock, chan, simLocals, ram, senders, call,
                   new_display, frame_ready_obs, tracker, renderer, hist>>

UiNext ==
    \/ UiTryRecv
    \/ UiReadFlag
    \/ UiAttachLock
    \/ UiAttachCreate
    \/ UiUpdateLock
    \/ UiUpdate
    \/ UiTrack
    \/ UiPaint
    \/ UiNotify

\* ------------------------------------------------------------ the program
Next ==
    \/ start
    \/ stop
    \/ \E t \in Threads : SimThread(t)
    \/ UiNext

Spec == Init /\ [][Next]_vars

\* The scheduler runs every runnable thread, and the UI keeps presenting.
FairSpec ==
    /\ Spec
    /\ WF_vars(UiNext)
    /\ \A t \in Threads : WF_vars(SimThread(t))

\* ------------------------------------------- the prepare phase in isolation
\* The prepare and paint callbacks on their own, for every texture size and
\* display variant the renderer and the slot may hold: the slot holds any
\* Display, the renderer a texture of any size made earlier.
TexWidths == {1, WIDTH}
TexHeights == {1, HEIGHT}

TexInit ==
    /\ should_run = FALSE
    /\ frame_ready_to_render \in BOOLEAN
    /\ display \in {Some(Chip8Display_new(0)), Some(BlankDisplay_new(0))}
    /\ lock = Free
    /\ chan \in {<<>>, <<0>>}
    /\ spawned = 0
    /\ pc = [t \in Threads |-> "unborn"]
    /\ xs = [t \in Threads |-> 0]
    /\ ys = [t \in Threads |-> 0]
    /\ uiPc = "idle"
    /\ new_display = None
    /\ frame_ready_obs = FALSE
    /\ tracker = FALSE
    /\ r_display = Some(0)
    /\ r_display_texture \in
           {Some([size |-> <<w, h>>, srgb |-> FALSE, data |-> EmptyBuf, tag |-> 0]) :
                w \in TexWidths, h \in TexHeights}
    /\ r_display_texture_bind_group = Some(0)
    /\ hist = HistInit
    /\ ram = Ram_new
    /\ call = None
    /\ senders = 1

SpecTexture == TexInit /\ [][UiNext]_vars

\* ================================================================ claims
\* ------------------------------------------------ the memory in isolation
\* The calls of Ram and Font a caller holding the Emulator's Ram can make,
\* over addresses on both sides of every masking and clamping boundary.
emuVars == <<shared, simLocals, uiLocals, renderer, hist, senders>>

AddrInputs == {0, 80, 4095, 4096, 4176, 65535}
ByteInputs == {0, 171}
BoundAddrs == {0, 4095, 4096, 65535}
BoundInputs ==
    {Unbounded} \cup {Included(a) : a \in BoundAddrs}
                \cup {Excluded(a) : a \in BoundAddrs}

\* The ranges of the test system_font_loaded_correctly: a character's bytes
\* as start..end and as start..=end.
GlyphRangeExclusive(g) ==
    <<Included(table_offset(g) + PREFERRED_TABLE_STARTING_ADDRESS),
      Excluded(table_offset(g) + PREFERRED_TABLE_STARTING_ADDRESS + 5)>>
GlyphRangeInclusive(g) ==
    <<Included(table_offset(g) + PREFERRED_TABLE_STARTING_ADDRESS),
      Included(table_offset(g) + PREFERRED_TABLE_STARTING_ADDRESS + 4)>>
RangeInputs ==
    (BoundInputs \X BoundInputs)
        \cup {GlyphRangeExclusive(g) : g \in Font}
        \cup {GlyphRangeInclusive(g) : g \in Font}

\* ram.get(addr)
RamGet(addr) ==
    /\ call' = Some([op |-> "get", addr |-> addr, r |-> Ram_get(ram, addr)])
    /\ UNCHANGED <<ram, emuVars>>

\* ram[addr]
RamIndex(addr) ==
    /\ call' = Some([op |-> "index", addr |-> addr, r |-> Ram_get(ram, addr)])
    /\ UNCHANGED <<ram, emuVars>>

\* *ram.get_mut(addr) = val
RamGetMut(addr, val) ==
    LET r == Ram_get_mut(ram, addr)
    IN  /\ ram' = IF r.panicked THEN ram ELSE MemWrite(ram, r.index, val)
        /\ call' = Some([op |-> "get_mut", addr |-> addr, val |-> val,
                         before |-> ram, panicked |-> r.panicked])
        /\ UNCHANGED emuVars

\* ram[addr] = val
RamIndexMut(addr, val) ==
    LET r == Ram_get_mut(ram, addr)
    IN  /\ ram' = IF r.panicked THEN ram ELSE MemWrite(ram, r.index, val)
        /\ call' = Some([op |-> "index_mut", addr |-> addr, val |-> val,
                         before |-> ram, panicked |-> r.panicked])
        /\ UNCHANGED emuVars

\* ram.set(addr, val)
RamSet(addr, val) ==
    LET r == Ram_set(ram, addr, val)
    IN  /\ ram' = r.mem
        /\ call' = Some([op |-> "set", addr |-> addr, val |-> val,
                         before |-> ram, panicked |-> r.panicked])
        /\ UNCHANGED emuVars

\* ram.get_range(start_bound, end_bound)
RamGetRange(range) ==
    /\ call' = Some([op |-> "get_range", range |-> range,
                     r |-> Ram_get_range(ram, range[1], range[2])])
    /\ UNCHANGED <<ram, emuVars>>

\* ram.get_range_mut(start_bound, end_bound)
RamGetRangeMut(range) ==
    /\ call' = Some([op |-> "get_range_mut", range |-> range,
                     r |-> Ram_get_range(ram, range[1], range[2])])
    /\ UNCHANGED <<ram, emuVars>>

\* g.table_offset(), g.as_bytes() and Font::get_table_as_bytes()
FontLookup(g) ==
    /\ call' = Some([op |-> "font", g |-> g, offset |-> table_offset(g),
                     bytes |-> as_bytes(g), table |-> get_table_as_bytes])
    /\ UNCHANGED <<ram, emuVars>>

RamNext ==
    \/ \E a \in AddrInputs : RamGet(a)
    \/ \E a \in AddrInputs : RamIndex(a)
    \/ \E a \in AddrInputs, v \in ByteInputs : RamGetMut(a, v)
    \/ \E a \in AddrInputs, v \in ByteInputs : RamIndexMut(a, v)
    \/ \E a \in AddrInputs, v \in ByteInputs : RamSet(a, v)
    \/ \E range \in RangeInputs : RamGetRange(range)
    \/ \E range \in BoundInputs \X BoundInputs : RamGetRangeMut(range)
    \/ \E g \in Font : FontLookup(g)

SpecRam == Init /\ [][RamNext]_vars

\* ----------------------------------- the presentation cycle, producers gone
\* The displays the slot may hold when the cycle starts.
PollDisplays ==
    {Chip8Display_new(0), flip_pixel(Chip8Display_new(0), 0, 0),
     flip_pixel(Chip8Display_new(0), 63, 31), BlankDisplay_new(0)}

\* A presentation cycle starts with every Sender of the channel dropped: a
\* last reference may still be pending, a display may have been attached by
\* an earlier cycle, and its texture holds the display as it was created or
\* as it is now.
PollInit ==
    /\ should_run = FALSE
    /\ frame_ready_to_render \in BOOLEAN
    /\ display \in {Some(d) : d \in PollDisplays}
    /\ lock = Free
    /\ chan \in {<<>>, <<0>>}
    /\ spawned = 0
    /\ pc = [t \in Threads |-> "unborn"]
    /\ xs = [t \in Threads |-> 0]
    /\ ys = [t \in Threads |-> 0]
    /\ uiPc = "idle"
    /\ new_display = None
    /\ frame_ready_obs = FALSE
    /\ tracker = FALSE
    /\ \/ /\ r_display = None
          /\ r_display_texture = None
          /\ r_display_texture_bind_group = None
       \/ /\ r_display = Some(0)
          /\ r_display_texture \in
                 {Some(from_chip8_display(display[1], 0)),
                  Some(from_chip8_display(
                           IF display[1].kind = "Chip8Display"
                           THEN Chip8Display_new(0) ELSE BlankDisplay_new(0), 0))}
          /\ r_display_texture_bind_group = Some(0)
    /\ hist = HistInit
    /\ ram = Ram_new
    /\ call = None
    /\ senders = 0

SpecDisconnected == PollInit /\ [][UiNext]_vars

\* ------------------------------------------ one simulation thread, long run
\* The state after the first start(): the thread is spawned and nothing else
\* has happened.
TickInit ==
    /\ should_run = FALSE
    /\ frame_ready_to_render = TRUE
    /\ display = None
    /\ lock = Free
    /\ chan = <<>>
    /\ spawned = 1
    /\ pc = [t \in Threads |-> IF t = 1 THEN "store_run" ELSE "unborn"]
    /\ xs = [t \in Threads |-> 0]
    /\ ys = [t \in Threads |-> 0]
    /\ uiPc = "idle"
    /\ new_display = None
    /\ frame_ready_obs = FALSE
    /\ tracker = FALSE
    /\ r_display = None
    /\ r_display_texture = None
    /\ r_display_texture_bind_group = None
    /\ hist = HistInit
    /\ ram = Ram_new
    /\ call = None
    /\ senders = 2

\* while self.should_run.load(): one more tick of the long run.
LongLoopCheck(t) ==
    /\ pc[t] = "loop_check"
    /\ should_run => hist.ticks[t] < MaxLoopTicks
    /\ Goto(t, IF should_run THEN "tick_lock" ELSE "exited")
    /\ senders' = IF should_run THEN senders ELSE senders - 1
    /\ UNCHANGED <<shared, spawned, xs, ys, uiLocals, ram, call, renderer, hist>>

\* The simulation thread alone: nobody stops it and nobody presents.
TickNext ==
    \/ RunLoopStore(1)
    \/ AttachInstall(1)
    \/ AttachSend(1)
    \/ AttachSetReady(1)
    \/ LongLoopCheck(1)
    \/ TickLock(1)
    \/ TickFlip(1)
    \/ TickSetReady(1)

SpecTicks == TickInit /\ [][TickNext]_vars

\* ------------------------------------------------ the renderer in isolation
\* The displays handed to Renderer::attach_display: of either kind, new or
\* with a pixel flipped; the id tells the displays apart.
RendererDisplays ==
    UNION {{Chip8Display_new(k), flip_pixel(Chip8Display_new(k), 0, 0),
            flip_pixel(Chip8Display_new(k), 63, 31),
            BlankDisplay_new(k)} : k \in 1..MaxDisplays}

\* Renderer::attach_display(new_display): the display is locked, its texture
\* and the bind group of that texture are created, and the three fields are
\* assigned.
Renderer_attach_display(d) ==
    /\ display' = Some(d)
    /\ r_display' = Some(d.id)
    /\ r_display_texture' = Some(from_chip8_display(d, d.id))
    /\ r_display_texture_bind_group' = Some(d.id)
    /\ call' = Some([op |-> "attach_display", before |-> renderer])
    /\ UNCHANGED <<should_run, frame_ready_to_render, lock, chan,
                   simLocals, uiLocals, hist, ram, senders>>

Renderer_detach_display_keep_bind_group ==
    /\ r_display' = None
    /\ r_display_texture' = None
    /\ r_display_texture_bind_group' = r_display_texture_bind_group
    /\ call' = Some([op |-> "detach_display", before |-> renderer])
    /\ UNCHANGED <<should_run, frame_ready_to_render, display, lock, chan,
                   simLocals, uiLocals, hist, ram, senders>>

\* Renderer::detach_display: the three fields are taken.
Renderer_detach_display ==
    /\ r_display' = None
    /\ r_display_texture' = None
    /\ r_display_texture_bind_group' = None
    /\ call' = Some([op |-> "detach_display", before |-> renderer])
    /\ UNCHANGED <<should_run, frame_ready_to_render, display, lock, chan,
                   simLocals, uiLocals, hist, ram, senders>>

RendererNext ==
    \/ \E d \in RendererDisplays : Renderer_attach_display(d)
    \/ Renderer_detach_display

\* Renderer::new leaves the three fields None, which is the state of Init.
SpecRenderer == Init /\ [][RendererNext]_vars

\* ----------------------------------------------- the display in isolation
\* flip_pixel on either display variant, at coordinates inside the display,
\* just outside it and far outside it (2^31 - 1).
FlipXs == {0, 1, 63, 64, 65, 2147483647}
FlipYs == {0, 1, 31, 32, 33, 2147483647}

FlipInit ==
    /\ should_run = FALSE
    /\ frame_ready_to_render = TRUE
    /\ display \in {Some(Chip8Display_new(0)), Some(BlankDisplay_new(0))}
    /\ lock = Free
    /\ chan = <<>>
    /\ spawned = 0
    /\ pc = [t \in Threads |-> "unborn"]
    /\ xs = [t \in Threads |-> 0]
    /\ ys = [t \in Threads |-> 0]
    /\ uiPc = "idle"
    /\ new_display = None
    /\ frame_ready_obs = FALSE
    /\ tracker = FALSE
    /\ r_display = None
    /\ r_display_texture = None
    /\ r_display_texture_bind_group = None
    /\ hist = HistInit
    /\ ram = Ram_new
    /\ call = None
    /\ senders = 1

\* display.flip_pixel(x, y) on the display in the slot
FlipPixel(x, y) ==
    /\ display' = IF flip_pixel_panics(display[1], x, y) THEN display
                  ELSE Some(flip_pixel(display[1], x, y))
    /\ call' = Some([op |-> "flip_pixel", x |-> x, y |-> y,
                     before |-> display[1],
                     panicked |-> flip_pixel_panics(display[1], x, y)])
    /\ UNCHANGED <<should_run, frame_ready_to_render, lock, chan,
                   simLocals, uiLocals, renderer, hist, ram, senders>>

FlipNext == \E x \in FlipXs, y \in FlipYs : FlipPixel(x, y)

SpecFlip == FlipInit /\ [][FlipNext]_vars

Range(q) == {q[i] : i \in 1..Len(q)}

IsPrefix(a, b) == Len(a) <= Len(b) /\ SubSeq(b, 1, Len(a)) = a

\* The threads inside the slot's critical section: a simulation thread
\* between taking the lock for a tick and the end of its flip, the UI thread
\* between taking the lock and the end of its texture creation or upload.
InCriticalSection ==
    {t \in Threads : pc[t] = "tick_flip"}
        \cup (IF uiPc \in {"attach_create", "update"} THEN {UiThread} ELSE {})

\* C1: at most one thread is inside the display slot's critical section; a
\* flip_pixel of the simulation thread and a snapshot read or upload of the
\* UI thread never overlap.
C1_MutualExclusion == Cardinality(InCriticalSection) <= 1

\* A simulation thread is in the middle of its flip while the UI thread waits
\* for the lock to upload.
C1_Witness ==
    \E t \in Threads : pc[t] = "tick_flip" /\ uiPc = "update_lock"

\* The step that clears the frame-ready flag.
FlagCleared == frame_ready_to_render /\ ~frame_ready_to_render'

Owed ==
    /\ r_display_texture # None
    /\ chan = <<>>
    /\ \A t \in Threads : pc[t] # "attach_send"
    /\ r_display_texture[1].data # as_rgba8_image(display[1])

\* C3: a frame raised by a tick after prepare has read the flag is not falsely
\* acknowledged: when the paint of that cycle has completed and the tick's
\* mutation is still owed an upload, frame-ready still reads true.
C3_NoFalseAcknowledge ==
    (uiPc = "idle" /\ hist.raised /\ Owed) => frame_ready_to_render

\* C4: the hand-off queue holds at most one pending display reference.
C4_QueueAtMostOne == Len(chan) <= 1

\* A second attach is waiting to push while the first reference is pending.
C4_Witness == Len(chan) = 1 /\ \E t \in Threads : pc[t] = "attach_send"

\* C5: every attach is eventually received by the presentation side, in the
\* order of the pushes and with none lost, the last one included.
C5_AttachesDelivered ==
    /\ [](IsPrefix(hist.received, hist.sent))
    /\ \A t \in Threads :
           (pc[t] = "attach_send") ~> (t \in Range(hist.received))

\* Two attaches were pushed, the second after waiting, and both were received.
C5_Witness == Len(hist.received) = 2 /\ hist.received = hist.sent

\* The steps that call notify_frame_rendered and set_frame_ready_to_render.
NotifyStep == uiPc = "notify" /\ uiPc' # "notify"
SetStep == \E t \in Threads : /\ pc[t] \in {"attach_set_ready", "tick_set_ready"}
                              /\ pc'[t] # pc[t]

\* C6: the flag is true on a new Emulator, false right after
\* notify_frame_rendered and true right after set_frame_ready_to_render,
\* whatever it was before.
C6_FlagProtocol ==
    /\ frame_ready_to_render = TRUE
    /\ [][/\ NotifyStep => ~frame_ready_to_render'
          /\ SetStep => frame_ready_to_render']_vars

\* A cycle has cleared the flag and a later set has raised it again.
C6_Witness ==
    /\ uiPc = "idle" /\ hist.drawn /\ frame_ready_obs
    /\ frame_ready_to_render

\* An earlier start() has succeeded and stop() has not been called since.
StartedNotStopped == spawned > 0 /\ ~hist.stopped[spawned]

\* C7: start() spawns no simulation thread whenever an earlier start() has
\* succeeded and stop() has not been called since.
C7_StartRejectedWhileRunning ==
    [][StartedNotStopped => spawned' = spawned]_vars

\* C8: after stop() a started simulation thread performs at most one further
\* flip_pixel.
C8_AtMostOneFlipAfterStop ==
    \A t \in Threads : hist.flips_after_stop[t] <= 1

\* C9: update with a display of the resource's size returns Ok and uploads
\* once; with another width or height it returns DimensionsChanged with the
\* old and the new dimensions, uploads nothing and leaves the size unchanged.
C9_UpdateContract ==
    hist.last_update # None =>
        LET u == hist.last_update[1]
        IN  IF u.dims[1] = u.size[1] /\ u.dims[2] = u.size[2]
            THEN u.result = <<"Ok">> /\ u.writes = 1 /\ u.size_after = u.size
            ELSE /\ u.result = <<"DimensionsChanged", u.size, u.dims>>
                 /\ u.writes = 0
                 /\ u.size_after = u.size

\* The 64x32 display was offered to a 1x1 resource.
C9_Witness ==
    /\ hist.last_update # None
    /\ hist.last_update[1].result = <<"DimensionsChanged", <<1, 1>>, <<64, 32>>>>

\* The last texture update in prepare reported DimensionsChanged.
UpdateFailed ==
    hist.last_update # None /\ hist.last_update[1].result # <<"Ok">>

C11_LockNotHeldAcrossSend ==
    \A t \in Threads : pc[t] = "attach_send" => lock # t

\* A producer is blocked on the full queue while another thread holds the
\* slot's lock.
C11_Witness ==
    \E t \in Threads :
        /\ pc[t] = "attach_send" /\ Len(chan) = ChannelCapacity
        /\ lock \in Threads \ {t}

\* C12: while the queue holds an unconsumed reference a producer at the send
\* of attach_display stays there; the pending reference is not overwritten or
\* dropped, it leaves the queue only by being received; and the new
\* reference is enqueued only onto the drained queue.
C12_ProducerBlocks ==
    [][\A t \in Threads :
          /\ (pc[t] = "attach_send" /\ Len(chan) = ChannelCapacity) =>
                 /\ pc'[t] = "attach_send"
                 /\ \/ chan' = chan
                    \/ /\ chan' = <<>>
                       /\ hist.received' = Append(hist.received, chan[1])
          /\ (pc[t] = "attach_send" /\ pc'[t] # "attach_send") =>
                 /\ chan = <<>>
                 /\ chan' = <<t>>
                 /\ hist.sent' = Append(hist.sent, t)]_vars

\* A producer has installed its display and is blocked at the send behind the
\* reference another attach pushed, which the consumer has not polled yet.
C12_Witness ==
    \E t \in Threads :
        /\ pc[t] = "attach_send"
        /\ display = Some(Chip8Display_new(t))
        /\ chan # <<>> /\ chan[1] # t
        /\ hist.sent = chan /\ hist.received = <<>>
        /\ uiPc = "idle"

\* C13: a presentation cycle that receives the display and observes
\* frame-ready true ends with a 64x32 texture resource made for that display,
\* the draw call issued, the tracker consumed and frame-ready reading false.
C13_EndToEnd ==
    [][(uiPc = "notify" /\ uiPc' = "idle" /\ new_display # None) =>
          /\ frame_ready_obs /\ hist.drawn /\ hist.uploaded
          /\ r_display' = new_display
          /\ r_display_texture' # None
          /\ r_display_texture'[1].size = <<64, 32>>
          /\ r_display_texture'[1].tag = new_display[1]
          /\ ~tracker'
          /\ ~frame_ready_to_render']_vars

\* The end of the run: one simulation thread was started and attached the
\* 64x32 display, ran one tick and raised frame-ready before prepare read it;
\* the cycle received the display, observed frame-ready true, created the
\* 64x32 texture holding the tick's flipped pixel, drew and notified; and
\* frame-ready reads false.
C13_Witness ==
    /\ spawned = 1 /\ pc[1] = "loop_check" /\ xs[1] = 1
    /\ display # None /\ dimensions(display[1]) = <<64, 32>>
    /\ hist.sent = <<1>> /\ hist.received = <<1>>
    /\ uiPc = "idle" /\ new_display = Some(1)
    /\ frame_ready_obs /\ ~hist.raised
    /\ r_display_texture # None
    /\ r_display_texture[1].size = <<64, 32>>
    /\ r_display_texture[1].data = as_rgba8_image(display[1])
    /\ as_rgba8_image(display[1]) # EmptyBuf
    /\ hist.drawn /\ hist.uploaded
    /\ ~tracker
    /\ ~frame_ready_to_render

\* The last call, when there was one and it was one of ops.
CallIs(ops) == call # None /\ call[1].op \in ops

\* C14: for every 16-bit address a, get, get_mut, set and indexing at a
\* access exactly the byte at a mod 4096, never out of bounds: a read at a
\* returns what a read at a mod 4096 returns, and a write at a changes what a
\* write at a mod 4096 changes.
C14_AccessMasked ==
    /\ CallIs({"get", "index"}) =>
           LET c == call[1]
           IN  /\ ~c.r.panicked
               /\ c.r.index = c.addr % 4096
               /\ c.r.value = MemAt(ram, c.addr % 4096)
               /\ c.r = Ram_get(ram, c.addr % 4096)
    /\ CallIs({"get_mut", "index_mut", "set"}) =>
           LET c == call[1]
           IN  /\ ~c.panicked
               /\ ram = MemWrite(c.before, c.addr % 4096, c.val)
               /\ ram = Ram_set(c.before, c.addr % 4096, c.val).mem

\* A write at 0x1050 has changed the byte at 0x050.
C14_Witness ==
    /\ CallIs({"set"})
    /\ call[1].addr = 4176 /\ call[1].val = 171
    /\ MemAt(call[1].before, 80) = 240
    /\ MemAt(ram, 80) = 171

\* C15: no range read can fail: for every range of 16-bit addresses, with
\* any combination of included, excluded or unbounded bounds, get_range and
\* get_range_mut return a slice without panicking.
C15_RangeNeverPanics ==
    CallIs({"get_range", "get_range_mut"}) => ~call[1].r.panicked

\* What a bound of a range should normalise to: the masked address, one more
\* for an excluded start or an included end.
MaskedStart(b) ==
    CASE b[1] = "Included" -> b[2] % 4096
      [] b[1] = "Excluded" -> Min((b[2] % 4096) + 1, 4095)
      [] b[1] = "Unbounded" -> 0
MaskedEnd(b) ==
    CASE b[1] = "Included" -> (b[2] % 4096) + 1
      [] b[1] = "Excluded" -> b[2] % 4096
      [] b[1] = "Unbounded" -> 4096

\* C16: the start and the end computed by normalize_addr_range are masked to
\* 12 bits and clamped, so that both are between 0 and 4096, for inclusive,
\* exclusive and unbounded bounds alike.
C16_BoundsMaskedAndClamped ==
    CallIs({"get_range", "get_range_mut"}) =>
        LET c == call[1]
        IN  /\ c.r.start \in 0..4096
            /\ c.r.end \in 0..4096
            /\ c.r.start = MaskedStart(c.range[1])
            /\ c.r.end = MaskedEnd(c.range[2])

\* An excluded start and an included end at 0xFFFF: the start is clamped to
\* 4095 and the end is 4096.
C16_Witness ==
    /\ CallIs({"get_range"})
    /\ call[1].range = <<Excluded(65535), Included(65535)>>
    /\ call[1].r.start = 4095 /\ call[1].r.end = 4096

\* C17: every address is writable, the reserved region included: after
\* set(a, v), get(a) returns v and every byte at another address than
\* a mod 4096 is unchanged.
C17_EveryAddressWritable ==
    CallIs({"set"}) =>
        LET c == call[1]
        IN  /\ ~c.panicked
            /\ Ram_get(ram, c.addr).value = c.val
            /\ \A i \in 0..4095 :
                   i # c.addr % 4096 => MemAt(ram, i) = MemAt(c.before, i)

\* A byte of the glyph table, in the reserved region, has been overwritten.
C17_Witness ==
    /\ CallIs({"set"})
    /\ call[1].addr = 80 /\ call[1].val = 171
    /\ call[1].before = Ram_new
    /\ MemAt(ram, 80) = 171

\* The character whose bytes a range of the font test reads, as a set.
GlyphOfRange(range) ==
    {g \in Font : range \in {GlyphRangeExclusive(g), GlyphRangeInclusive(g)}}

\* C18: a new Ram holds the glyph table at 0x050..0x09F: the five bytes of
\* each character, read with an exclusive or an inclusive range, are its
\* as_bytes, and every byte outside 0x050..0x09F is zero.
C18_FontLoaded ==
    ram = Ram_new =>
        /\ \A i \in 0..4095 : (i < 80 \/ i > 159) => MemAt(ram, i) = 0
        /\ \A i \in 80..159 : MemAt(ram, i) = get_table_as_bytes[i - 79]
        /\ CallIs({"get_range"}) =>
               \A g \in GlyphOfRange(call[1].range) :
                   /\ ~call[1].r.panicked
                   /\ SliceBytes(ram, call[1].r.start, call[1].r.end) = as_bytes(g)

\* The bytes of CharF were read from a new Ram with the inclusive range.
C18_Witness ==
    /\ ram = Ram_new
    /\ CallIs({"get_range"})
    /\ call[1].range = GlyphRangeInclusive(15)
    /\ SliceBytes(ram, call[1].r.start, call[1].r.end) = <<240, 128, 240, 128, 128>>

\* The as_bytes of the first n characters, one after the other.
RECURSIVE ConcatGlyphs(_)
ConcatGlyphs(n) == IF n = 0 THEN <<>> ELSE ConcatGlyphs(n - 1) \o as_bytes(n - 1)

\* C19: for each character g, table_offset(g) = 5 * g, the five bytes of the
\* table from table_offset(g) are as_bytes(g), and the as_bytes of the 16
\* characters in order make up the whole table of 80 bytes.
C19_FontTableRoundTrip ==
    CallIs({"font"}) =>
        LET c == call[1]
        IN  /\ c.offset = 5 * c.g
            /\ SubSeq(c.table, c.offset + 1, c.offset + 5) = c.bytes
            /\ Len(c.table) = 80
            /\ ConcatGlyphs(16) = c.table

\* CharF was looked up: its offset is 75 and its bytes end the table.
C19_Witness ==
    /\ CallIs({"font"})
    /\ call[1].g = 15 /\ call[1].offset = 75
    /\ SubSeq(call[1].table, 76, 80) = call[1].bytes

\* C20: for every display variant of dimensions WxH and every (x, y), far
\* outside the display included, flip_pixel(x, y) never fails and leaves the
\* display as flip_pixel(x mod W, y mod H) does, each axis wrapped on its own.
C20_FlipWraps ==
    CallIs({"flip_pixel"}) =>
        LET c == call[1]
            W == dimensions(c.before)[1]
            H == dimensions(c.before)[2]
        IN  /\ ~c.panicked
            /\ display = Some(flip_pixel(c.before, c.x % W, c.y % H))
            /\ \A p \in DOMAIN as_rgba8_image(display[1]) :
                   p[1] \in 0..(W - 1) /\ p[2] \in 0..(H - 1)

\* A flip far outside the 64x32 display on x and just outside it on y has
\* inverted the pixel at (63, 0).
C20_Witness ==
    /\ CallIs({"flip_pixel"})
    /\ call[1].x = 2147483647 /\ call[1].y = 32
    /\ call[1].before = Chip8Display_new(0)
    /\ PixelAt(display[1], <<63, 0>>) = <<255, 0, 255, 255>>

\* Two calls of flip_pixel whose coordinates wrap to the same pixel of d.
SameWrappedPixel(d, c1, c2) ==
    /\ c1.x % dimensions(d)[1] = c2.x % dimensions(d)[1]
    /\ c1.y % dimensions(d)[2] = c2.y % dimensions(d)[2]

\* C21: two consecutive flip_pixel calls whose coordinates wrap to the same
\* pixel restore the display buffer to its value before the first call,
\* whatever the pixel held, the coloured corner pixels included.
C21_FlipTwiceRestores ==
    [][(/\ CallIs({"flip_pixel"})
        /\ call' # call
        /\ SameWrappedPixel(call[1].before, call[1], call'[1]))
          => /\ display' = Some(call[1].before)
             /\ as_rgba8_image(display'[1]) = as_rgba8_image(call[1].before)]_vars

\* The red corner pixel (0, 0) of a new 64x32 display was flipped at (0, 0)
\* and then at (64, 32), and the display is again as constructed.
C21_Witness ==
    /\ CallIs({"flip_pixel"})
    /\ call[1].x = 64 /\ call[1].y = 32
    /\ call[1].before = flip_pixel(Chip8Display_new(0), 0, 0)
    /\ PixelAt(call[1].before, <<0, 0>>) = <<0, 255, 255, 255>>
    /\ display = Some(Chip8Display_new(0))

\* The cycle has received a display and attached it: the texture resource is
\* the one from_chip8_display made from the display in the slot.
CreatedThisCycle ==
    /\ new_display # None
    /\ uiPc \in {"update_lock", "update", "track", "paint", "notify", "idle"}

C23_BlankStaysBlank ==
    (display # None /\ display[1].kind = "BlankDisplay") =>
        /\ dimensions(display[1]) = <<1, 1>>
        /\ ~is_srgb(display[1])
        /\ as_rgba8_image(display[1]) = as_rgba8_image(BlankDisplay_new(0))
        /\ PixelAt(display[1], <<0, 0>>) = BlankInitPixel(<<0, 0>>)
        /\ PixelAt(display[1], <<0, 0>>)[1] = 0
        /\ PixelAt(display[1], <<0, 0>>)[2] = 0
        /\ PixelAt(display[1], <<0, 0>>)[3] = 0

\* The placeholder was flipped at a coordinate far outside it.
C23_Witness ==
    /\ CallIs({"flip_pixel"})
    /\ call[1].before.kind = "BlankDisplay"
    /\ call[1].x = 2147483647 /\ call[1].y = 33
    /\ display = Some(BlankDisplay_new(0))

\* No simulation thread has a raise of this attach or tick still to make.
NoRaisePending ==
    \A t \in Threads : pc[t] \notin {"attach_set_ready", "tick_set_ready"}

\* C24: every mutation of the display buffer is eventually uploaded: when no
\* presentation cycle is in progress and the buffer holds a mutation made
\* after the last upload, frame-ready is true or the raise of the tick that
\* made the mutation is still to come, so the upload needs no further tick.
C24_MutationUploadDue ==
    (uiPc = "idle" /\ Owed /\ NoRaisePending) => frame_ready_to_render

\* Thread t takes a step from the place `from` of its code.
StepFrom(t, from) == pc[t] = from /\ pc'[t] # from

\* C25: within a tick the order is: acquire the slot lock, flip, release the
\* lock, raise frame-ready, request the wake, sleep. Frame-ready is raised
\* for a tick only after its flip has completed and the lock is released, and
\* every raise is followed by a wake request before the next tick.
C25_TickOrder ==
    [][\A t \in Threads :
        /\ StepFrom(t, "loop_check") => pc'[t] \in {"tick_lock", "exited"}
        /\ StepFrom(t, "tick_lock") =>
               /\ pc'[t] = "tick_flip"
               /\ lock = Free /\ lock' = t
               /\ display' = display
               /\ frame_ready_to_render' = frame_ready_to_render
        /\ StepFrom(t, "tick_flip") =>
               /\ pc'[t] \in {"tick_set_ready", "panicked"}
               /\ lock = t /\ lock' = Free
               /\ pc'[t] = "tick_set_ready" =>
                      display' = Some(flip_pixel(display[1], xs[t], ys[t]))
               /\ frame_ready_to_render' = frame_ready_to_render
               /\ hist'.repaint_requests = hist.repaint_requests
        /\ StepFrom(t, "tick_set_ready") =>
               /\ pc'[t] = "loop_check"
               /\ lock # t /\ lock' = lock
               /\ display' = display
               /\ frame_ready_to_render'
               /\ hist'.repaint_requests = hist.repaint_requests + 1]_vars

\* A thread has run a tick to its end: one flip, the flag raised, and the
\* wake requests of the attach and of the tick made.
C25_Witness ==
    /\ \E t \in Threads : pc[t] = "loop_check" /\ xs[t] = 1
    /\ spawned = 1
    /\ hist.repaint_requests = 2
    /\ frame_ready_to_render
    /\ lock = Free

\* The presentation side receives a reference from the hand-off queue.
ReceiveStep == uiPc = "idle" /\ uiPc' # "idle" /\ chan # <<>>

\* Thread t has installed its display in the slot.
HasInstalled(t) ==
    pc[t] \notin {"unborn", "store_run", "attach_install"}

\* C26: attach_display installs the display in the slot, then pushes the
\* reference, then raises frame-ready, then requests the wake; so when the
\* consumer receives a reference the slot is already Occupied by the newly
\* attached display (or, with two attaches, by the one installed last).
C26_AttachOrder ==
    [][/\ \A t \in Threads :
            /\ StepFrom(t, "attach_install") =>
                   /\ pc'[t] = "attach_send"
                   /\ display' = Some(Chip8Display_new(t))
                   /\ chan' = chan
            /\ StepFrom(t, "attach_send") =>
                   /\ pc'[t] = "attach_set_ready"
                   /\ chan' = Append(chan, t)
                   /\ display' = display
                   /\ frame_ready_to_render' = frame_ready_to_render
                   /\ hist'.repaint_requests = hist.repaint_requests
            /\ StepFrom(t, "attach_set_ready") =>
                   /\ pc'[t] = "loop_check"
                   /\ frame_ready_to_render'
                   /\ hist'.repaint_requests = hist.repaint_requests + 1
       /\ ReceiveStep =>
            /\ new_display' = Some(Head(chan))
            /\ HasInstalled(Head(chan))
            /\ display # None
            /\ HasInstalled(display[1].id)
            /\ spawned = 1 => display[1].id = Head(chan)]_vars

\* The consumer has received the reference of the first attach, whose
\* display is in the slot, before that attach raised frame-ready.
C26_Witness ==
    /\ uiPc = "read_flag"
    /\ new_display = Some(1)
    /\ display # None /\ display[1].id = 1
    /\ pc[1] = "attach_set_ready"
    /\ hist.repaint_requests = 0

\* The display the slot holds, None for the Empty slot.
SlotDisplayId == IF display = None THEN None ELSE Some(display[1].id)

\* A step of the presentation side.
UiStep == uiPc' # uiPc

\* C27: the slot starts Empty; its only transitions are Empty to Occupied
\* and Occupied to Occupied, both made by the producer while it holds the
\* slot lock; once Occupied it is never Empty again, and the presentation
\* side never changes which display the slot holds.
C27_SlotTransitions ==
    /\ display = None
    /\ [][/\ display # None => display' # None
          /\ SlotDisplayId' # SlotDisplayId =>
                 \E t \in Threads :
                    /\ StepFrom(t, "attach_install")
                    /\ lock = Free /\ lock' = Free
                    /\ display' = Some(Chip8Display_new(t))
          /\ UiStep => SlotDisplayId' = SlotDisplayId]_vars

\* Two attaches have installed their displays, the second over the first:
\* the slot went from Empty to Occupied and from Occupied to Occupied.
C27_Witness ==
    /\ HasInstalled(1) /\ HasInstalled(2)
    /\ display # None /\ display[1].id = 2
    /\ hist.sent = <<1, 2>>

\* C28: within one prepare a received display is attached, its texture
\* resource and binding recreated, before the frame-ready upload runs: the
\* update of the cycle targets the resource created for the newest received
\* display, never the stale one.
C28_UpdateTargetsNewest ==
    (uiPc \in {"update_lock", "update"} /\ new_display # None) =>
        /\ r_display = new_display
        /\ r_display_texture # None
        /\ r_display_texture[1].tag = new_display[1]
        /\ r_display_texture_bind_group = Some(new_display[1])

\* The second attach has been received in a cycle that uploads: the texture
\* about to be updated is the one made for it, not the one of the first.
C28_Witness ==
    /\ uiPc = "update"
    /\ hist.received = <<1, 2>>
    /\ new_display = Some(2)
    /\ r_display_texture # None /\ r_display_texture[1].tag = 2

\* C29: in every reachable state of the running program the texture update
\* of prepare is called with a display whose dimensions equal the size of the
\* attached texture, so it never returns DimensionsChanged and the expect in
\* prepare never panics.
C29_UpdateNeverFails ==
    /\ uiPc # "panicked"
    /\ (uiPc = "update" /\ r_display # None /\ r_display_texture # None) =>
           /\ display # None
           /\ r_display_texture[1].size = dimensions(display[1])
           /\ Renderer_update_display_texture(
                  r_display, r_display_texture, display).result = <<"Ok">>
    /\ hist.last_update # None =>
           /\ hist.last_update[1].result = <<"Ok">>
           /\ hist.last_update[1].size = hist.last_update[1].dims

\* A cycle that received no display has uploaded the display, mutated by a
\* tick, into the texture attached by an earlier cycle.
C29_Witness ==
    /\ uiPc = "track"
    /\ new_display = None
    /\ hist.last_update # None
    /\ hist.last_update[1].result = <<"Ok">>
    /\ hist.last_update[1].writes = 1
    /\ as_rgba8_image(display[1]) # EmptyBuf
    /\ r_display_texture[1].data = as_rgba8_image(display[1])

\* What identifies a texture resource: the attach it was created for, its
\* size and its format; an upload changes its content only.
TextureResource(tex) ==
    IF tex = None THEN None ELSE Some(<<tex[1].tag, tex[1].size, tex[1].srgb>>)

\* C30: a prepare whose non-blocking poll finds the queue empty treats it as
\* no new display: it raises no error, does not block, and leaves the
\* renderer's attached display, texture resource and binding unchanged.
C30_EmptyPollIsNoDisplay ==
    /\ [](uiPc = "idle" => ENABLED UiTryRecv)
    /\ [][/\ (uiPc = "idle" /\ UiStep /\ chan = <<>>) =>
                 /\ uiPc' = "read_flag"
                 /\ new_display' = None
                 /\ ~hist'.disconnect_reported
                 /\ chan' = <<>>
                 /\ renderer' = renderer
          /\ (uiPc # "idle" /\ UiStep /\ new_display = None) =>
                 /\ uiPc' \notin {"attach_lock", "attach_create", "panicked"}
                 /\ r_display' = r_display
                 /\ r_display_texture_bind_group' = r_display_texture_bind_group
                 /\ TextureResource(r_display_texture') =
                        TextureResource(r_display_texture)]_vars

\* With a display attached by an earlier cycle, a prepare has polled the
\* empty queue and goes on with no new display.
C30_Witness ==
    /\ uiPc = "read_flag"
    /\ new_display = None
    /\ chan = <<>>
    /\ hist.received = <<1>>
    /\ r_display = Some(1)
    /\ r_display_texture # None /\ r_display_texture[1].tag = 1

\* Thread t completes the flip of a tick.
FlipStep(t) == StepFrom(t, "tick_flip") /\ pc'[t] = "tick_set_ready"

\* C32: on its k-th tick, k counted from 0, the simulation loop flips the
\* pixel at (k mod W, k mod H), where (W, H) are the dimensions() of the
\* display in the slot; x and y advance by one per tick and wrap
\* independently at the display's width and height.
C32_TickCoordinates ==
    [][\A t \in Threads :
        FlipStep(t) =>
            LET k == hist.ticks[t]
                W == dimensions(display[1])[1]
                H == dimensions(display[1])[2]
            IN  /\ xs[t] = k % W /\ ys[t] = k % H
                /\ display' = Some(flip_pixel(display[1], k % W, k % H))
                /\ hist'.ticks[t] = k + 1
                /\ xs'[t] = (k + 1) % W /\ ys'[t] = (k + 1) % H]_vars

\* The thread has run 66 ticks: x has wrapped once and y twice, and the tick
\* numbered 65 flipped the pixel at (1, 1) a second time.
C32_Witness ==
    /\ hist.ticks[1] = 66
    /\ xs[1] = 2 /\ ys[1] = 2
    /\ PixelAt(display[1], <<1, 1>>) = Chip8InitPixel(<<1, 1>>)
    /\ PixelAt(display[1], <<2, 2>>) # Chip8InitPixel(<<2, 2>>)

\* Thread t is executing the tick loop of main_run_loop.
InTickLoop(t) ==
    pc[t] \in {"loop_check", "tick_lock", "tick_flip", "tick_set_ready"}

\* C33: after any sequence of start() and stop() calls on an emulator and
\* its clones, at most one simulation thread is executing the tick loop.
C33_AtMostOneTicking ==
    Cardinality({t \in Threads : InTickLoop(t)}) <= 1

\* C34: at every tick of the simulation loop the slot is Occupied: the first
\* tick happens only after attach_display has installed a display, so the
\* unwrap of the slot's content inside the loop never fails.
C34_SlotOccupiedAtTicks ==
    \A t \in Threads :
        /\ pc[t] # "panicked"
        /\ InTickLoop(t) => /\ display # None
                            /\ HasInstalled(t)

\* A thread holds the slot lock in a tick, about to unwrap and flip the
\* display it installed.
C34_Witness ==
    /\ pc[1] = "tick_flip"
    /\ lock = 1
    /\ display # None /\ display[1].id = 1

\* The addresses a range of bounds denotes once each bound is masked to 12
\* bits: from FirstAddr, included, to PastAddr, excluded.
FirstAddr(b) ==
    CASE b[1] = "Included" -> b[2] % 4096
      [] b[1] = "Excluded" -> (b[2] % 4096) + 1
      [] b[1] = "Unbounded" -> 0
PastAddr(b) ==
    CASE b[1] = "Included" -> (b[2] % 4096) + 1
      [] b[1] = "Excluded" -> b[2] % 4096
      [] b[1] = "Unbounded" -> 4096

\* C36: for every range of 16-bit addresses get_range returns exactly the
\* bytes whose addresses lie between the 12-bit-masked start and end bounds:
\* an included bound includes the byte at its masked address, an excluded
\* bound excludes it, an unbounded side extends to address 0 or to the end.
C36_RangeReturnsMaskedBytes ==
    CallIs({"get_range"}) =>
        LET c == call[1]
            first == FirstAddr(c.range[1])
            past == PastAddr(c.range[2])
        IN  /\ ~c.r.panicked
            /\ \/ first >= past /\ c.r.start >= c.r.end
               \/ c.r.start = first /\ c.r.end = past
            /\ SliceBytes(ram, c.r.start, c.r.end) = SliceBytes(ram, first, past)

\* C37: flip_pixel(x, y) on the 64x32 display changes only the pixel at
\* (x mod 64, y mod 32): every other pixel, that pixel's alpha and the
\* display's dimensions are unchanged, after any sequence of flips.
C37_FlipChangesOnePixel ==
    (CallIs({"flip_pixel"}) /\ call[1].before.kind = "Chip8Display") =>
        LET c == call[1]
            p == <<c.x % 64, c.y % 32>>
            touched == DOMAIN as_rgba8_image(display[1])
                           \cup DOMAIN as_rgba8_image(c.before)
        IN  /\ \A q \in touched \ {p} :
                   PixelAt(display[1], q) = PixelAt(c.before, q)
            /\ touched \subseteq (0..63) \X (0..31)
            /\ PixelAt(display[1], p) # PixelAt(c.before, p)
            /\ PixelAt(display[1], p)[4] = PixelAt(c.before, p)[4]
            /\ \A q \in touched : PixelAt(display[1], q)[4] = 255
            /\ dimensions(display[1]) = dimensions(c.before)
            /\ dimensions(display[1]) = <<64, 32>>
            /\ display[1].kind = "Chip8Display"

\* After a flip of the pixel (0, 0), a flip at (65, 33) has changed the
\* pixel (1, 1) and left the flipped pixel (0, 0) as it was.
C37_Witness ==
    /\ CallIs({"flip_pixel"})
    /\ call[1].before = flip_pixel(Chip8Display_new(0), 0, 0)
    /\ call[1].x = 65 /\ call[1].y = 33
    /\ PixelAt(display[1], <<1, 1>>) # Chip8InitPixel(<<1, 1>>)
    /\ PixelAt(display[1], <<0, 0>>) = PixelAt(call[1].before, <<0, 0>>)

\* C38: after any sequence of Renderer::attach_display and
\* Renderer::detach_display calls the renderer's display, display texture
\* and display bind group are all present or all absent, and when present
\* the texture and the bind group are the ones created for the attached
\* display.
C38_RendererAllOrNone ==
    \/ /\ r_display = None
       /\ r_display_texture = None
       /\ r_display_texture_bind_group = None
    \/ /\ r_display # None
       /\ r_display_texture # None
       /\ r_display_texture_bind_group # None
       /\ r_display_texture[1].tag = r_display[1]
       /\ r_display_texture_bind_group[1] = r_display[1]
       /\ CallIs({"attach_display"}) =>
              /\ display[1].id = r_display[1]
              /\ r_display_texture[1] = from_chip8_display(display[1], r_display[1])

\* The 64x32 display 2, with a pixel flipped, was attached over the attached
\* 1x1 display 1: texture and bind group are those of display 2.
C38_Witness ==
    /\ CallIs({"attach_display"})
    /\ call[1].before[1] = Some(1)
    /\ call[1].before[2] # None /\ call[1].before[2][1].size = <<1, 1>>
    /\ r_display = Some(2)
    /\ r_display_texture # None
    /\ r_display_texture[1].tag = 2
    /\ r_display_texture[1].size = <<64, 32>>
    /\ r_display_texture[1].data # EmptyBuf
    /\ r_display_texture_bind_group = Some(2)

\* The simulation threads that hold their Emulator: spawned and not returned.
LiveThreads == {t \in Threads : pc[t] \notin {"unborn", "exited", "panicked"}}

\* C35: while the presentation side holds its Emulator clone, its poll of
\* the hand-off queue never returns Disconnected, even after the simulation
\* thread has exited, because every Emulator clone carries a sender of the
\* same channel.
C35_NeverDisconnected ==
    /\ [](/\ try_recv(chan, senders) # "Disconnected"
          /\ ~hist.disconnect_reported
          /\ senders = 1 + Cardinality(LiveThreads))
    /\ [][(uiPc = "idle" /\ UiStep) =>
             /\ try_recv(chan, senders) \in {"Ok", "Empty"}
             /\ ~hist'.disconnect_reported]_vars

\* The only simulation thread has exited, its display was received earlier,
\* and a poll of the empty queue has found no new display and reported
\* nothing.
C35_Witness ==
    /\ spawned = 1 /\ pc[1] = "exited"
    /\ senders = 1
    /\ hist.received = <<1>>
    /\ uiPc = "read_flag"
    /\ new_display = None
    /\ ~hist.disconnect_reported

\* The poll of this cycle found the queue disconnected.
DisconnectedPoll ==
    uiPc = "idle" /\ UiStep /\ try_recv(chan, senders) = "Disconnected"

\* C31: a prepare whose poll finds the hand-off queue disconnected does not
\* crash or propagate an error: it reports the condition, keeps the last
\* attached display, texture and binding, and the cycle goes on to the
\* frame-ready check and the paint as usual.
C31_DisconnectedPollGoesOn ==
    /\ [](uiPc # "panicked")
    /\ [][/\ DisconnectedPoll =>
                 /\ hist'.disconnect_reported
                 /\ uiPc' = "read_flag"
                 /\ new_display' = None
                 /\ renderer' = renderer
          /\ (hist.disconnect_reported /\ UiStep /\ uiPc # "idle") =>
                 /\ uiPc' \notin {"attach_lock", "attach_create"}
                 /\ r_display' = r_display
                 /\ r_display_texture_bind_group' = r_display_texture_bind_group
                 /\ TextureResource(r_display_texture') =
                        TextureResource(r_display_texture)
          /\ (hist.disconnect_reported /\ UiStep /\ uiPc = "read_flag") =>
                 /\ frame_ready_obs' = frame_ready_to_render
                 /\ uiPc' = AfterAttach(frame_ready_to_render, r_display)
          /\ (hist.disconnect_reported /\ UiStep /\ uiPc = "paint") =>
                 /\ hist'.drawn
                 /\ uiPc' = IF tracker THEN "notify" ELSE "idle"]_vars

\* A cycle whose poll found the queue disconnected has reported it, uploaded
\* the display into the texture attached earlier, painted and notified.
C31_Witness ==
    /\ hist.disconnect_reported
    /\ uiPc = "idle"
    /\ hist.drawn /\ hist.uploaded
    /\ ~frame_ready_to_render
    /\ r_display = Some(0)
    /\ r_display_texture # None
    /\ r_display_texture[1].data = as_rgba8_image(display[1])
    /\ as_rgba8_image(display[1]) # EmptyBuf

====
